---- MODULE Spec2Model ----
(***************************************************************************)
(* generate_schedule.py: fetch the ICS feeds named by ICS_URLS or by       *)
(* config.json, keep the busy events of a five-week window, anonymise them *)
(* and write schedule.json.                                                *)
(*                                                                         *)
(* Time is counted in hours since 00:00 UTC of day 0, and day 0 is a       *)
(* Monday.  A text is a sequence of atoms: "," and " " are the comma and a *)
(* whitespace character, every other atom is a run of ordinary characters  *)
(* ("a" is the text http://a, "P" the text YOUR_ICS_URL_HERE).             *)
(***************************************************************************)
EXTENDS Integers, Sequences, FiniteSets, TLC

VARIABLES
    configExists,   \* config.json is present next to the script
    config,         \* the parsed content of config.json
    ICS_URLS,       \* the environment variable, <<>> when unset
    web,            \* what a GET of each known URL yields
    sysOff,         \* UTC offset of the system timezone (date.today())
    now,            \* the last reading of the clock
    schedule0,      \* schedule.json as it was before the first run
    schedule_json,  \* schedule.json on disk: <<>> or <<document>>
    runNo,          \* which invocation of the script this is
    pc,             \* position of main()
    exitCode,       \* -1 while running, else the exit status
    stderr,         \* the diagnostics printed so far in this run
    tz_name, local_tz, ics_urls, configured,
    range_start, range_end,
    all_events,
    i,              \* index in ics_urls of the url of the for loop
    cal, ci,        \* parse_ics_url: the decoded calendar, the walk position
    events,         \* parse_ics_url: its result list
    perFeed,        \* history: the evts returned for each url of this run
    writeLog        \* history: every json.dump to schedule.json

envVars == <<configExists, config, ICS_URLS, web, sysOff, schedule0>>
mainVars == <<tz_name, local_tz, ics_urls, configured>>
rangeVars == <<range_start, range_end>>
parseVars == <<cal, ci, events>>
vars == <<configExists, config, ICS_URLS, web, sysOff, now, schedule0,
          schedule_json, runNo, pc, exitCode, stderr, tz_name, local_tz,
          ics_urls, configured, range_start, range_end, all_events, i, cal,
          ci, events, perFeed, writeLog>>

----------------------------------------------------------------------------
(* Bounds of the model *)
MaxEnvLen == 4      \* atoms in ICS_URLS
MaxCfgUrls == 2     \* entries of icsUrls in config.json
MaxFeeds == 3       \* urls of a resolved feed list in the pipeline runs
MaxComps == 2       \* components of one calendar
MaxAdvance == 1     \* hours the clock may have advanced at its next reading
MaxRuns == 2        \* invocations of the script

(* Program constants *)
FetchWeeks == 5
DefaultWeeklyProjectHours == 20
DefaultWorkdayStart == 8
DefaultWorkdayEnd == 19

----------------------------------------------------------------------------
(* Texts *)
Placeholder == <<"P">>

RECURSIVE LStrip(_)
LStrip(s) == IF s # <<>> /\ Head(s) = " " THEN LStrip(Tail(s)) ELSE s

RECURSIVE RStrip(_)
RStrip(s) ==
    IF s # <<>> /\ s[Len(s)] = " " THEN RStrip(SubSeq(s, 1, Len(s) - 1)) ELSE s

\* str.strip()
Strip(s) == RStrip(LStrip(s))

RECURSIVE SplitAcc(_, _, _)
SplitAcc(s, cur, acc) ==
    IF s = <<>> THEN Append(acc, cur)
    ELSE IF Head(s) = "," THEN SplitAcc(Tail(s), <<>>, Append(acc, cur))
    ELSE SplitAcc(Tail(s), Append(cur, Head(s)), acc)

\* str.split(",")
Split(s) == SplitAcc(s, <<>>, <<>>)

\* str.upper() on the flag values of the model
Upper(s) ==
    CASE s \in {"transparent", "Transparent", "TRANSPARENT"} -> "TRANSPARENT"
      [] s \in {"free", "Free", "FREE"} -> "FREE"
      [] s \in {"opaque", "OPAQUE"} -> "OPAQUE"
      [] s \in {"busy", "BUSY"} -> "BUSY"
      [] OTHER -> s

\* dict.get(key, default) on config.json; an absent key has has = FALSE
Get(cfg, key, default) == IF cfg[key].has THEN cfg[key].val ELSE default

----------------------------------------------------------------------------
(* Dates and times *)
KnownZones == {"UTC", "Asia/Tokyo", "America/New_York"}

\* pytz.timezone(name): the zone's UTC offset in hours (New York as in June)
ZoneOffset(z) ==
    CASE z = "UTC" -> 0
      [] z = "Asia/Tokyo" -> 9
      [] z = "America/New_York" -> 0 - 4

\* an aware datetime: the instant and the UTC offset of its tzinfo
Aware(utc, off) == [utc |-> utc, off |-> off]

\* tz.localize(naive datetime with wall-clock reading `wall`)
Localize(tz, wall) == Aware(wall - ZoneOffset(tz), ZoneOffset(tz))

\* dt.astimezone(tz)
AsTimezone(dt, tz) == Aware(dt.utc, ZoneOffset(tz))

\* dt.isoformat(): the wall-clock reading followed by the offset
IsoFormat(dt) == [local |-> dt.utc + dt.off, offset |-> dt.off]

\* the day (.year, .month, .day) of a wall-clock reading
DayOf(wall) == wall \div 24

\* datetime(d.year, d.month, d.day, 0, 0, 0) as a wall-clock reading
Midnight(day) == day * 24

\* date.today(): the date in the system timezone
Today(clock, off) == DayOf(clock + off)

\* date.weekday(): Monday is 0
Weekday(day) == day % 7

\* get_fetch_range(tz), given the reading of the clock
get_fetch_range(tz, clock, off) ==
    LET today == Today(clock, off)
        monday == today - Weekday(today)
        rs == Localize(tz, Midnight(monday))
    IN  <<rs, Aware(rs.utc + FetchWeeks * 7 * 24, rs.off)>>

----------------------------------------------------------------------------
(* parse_ics_url: one component of cal.walk() *)

\* a property value .dt: a date (v = day), a naive datetime (v = wall-clock
\* hours), an aware datetime (v = UTC hours, off = its offset); kind "none"
\* stands for a property the component does not have
NoValue == [kind |-> "none", v |-> 0, off |-> 0]
DateValue(day) == [kind |-> "date", v |-> day, off |-> 0]
NaiveValue(wall) == [kind |-> "naive", v |-> wall, off |-> 0]
AwareValue(utc, off) == [kind |-> "aware", v |-> utc, off |-> off]

\* component.get("DTEND") or component.get("DTSTART")
DtEnd(c) == IF c.DTEND.kind # "none" THEN c.DTEND ELSE c.DTSTART

\* lines 62-68: not an event record, or no start
NotAnEvent(c) == c.name # "VEVENT" \/ c.DTSTART.kind = "none"

\* the flags compared without upper()
IsFreeCaseSensitive(c) == c.TRANSP = "TRANSPARENT" \/ c.BUSYSTATUS = "FREE"

\* lines 70-78: marked free; an absent flag is the empty text
IsFree(c) ==
    \/ c.TRANSP # "" /\ Upper(c.TRANSP) = "TRANSPARENT"
    \/ c.BUSYSTATUS # "" /\ Upper(c.BUSYSTATUS) = "FREE"

\* .year, .month, .day of a date or datetime value
RawDay(raw) ==
    CASE raw.kind = "date" -> raw.v
      [] raw.kind = "naive" -> DayOf(raw.v)
      [] OTHER -> DayOf(raw.v + raw.off)

\* line 93-94: raw.tzinfo; a date has no such attribute
RaisesAttributeError(c) == c.DTSTART.kind # "date" /\ DtEnd(c).kind = "date"

\* raw if raw.tzinfo else local_tz.localize(raw), then .astimezone(local_tz)
ToLocal(raw, tz) ==
    AsTimezone(IF raw.kind = "aware" THEN Aware(raw.v, raw.off)
               ELSE Localize(tz, raw.v), tz)

\* lines 80-96: <<start, end>> as aware datetimes
Normalise(c, tz) ==
    IF c.DTSTART.kind = "date"
    THEN <<Localize(tz, Midnight(RawDay(c.DTSTART))),
           Localize(tz, Midnight(RawDay(DtEnd(c))))>>
    ELSE <<ToLocal(c.DTSTART, tz), ToLocal(DtEnd(c), tz)>>

\* the range test with the end compared by < instead of <=
OutsideRangeStrict(start, end, rs, re) ==
    start.utc >= re.utc \/ end.utc < rs.utc

\* lines 98-100: the event is outside the fetch range
OutsideRange(start, end, rs, re) == start.utc >= re.utc \/ end.utc <= rs.utc

\* the dict with the title of the event left in it
MakeEventKeepingTitle(c, start, end) ==
    [start |-> IsoFormat(start), end |-> IsoFormat(end), summary |-> c.SUMMARY]

\* lines 102-109: the dict appended to events
MakeEvent(c, start, end) ==
    [start |-> IsoFormat(start), end |-> IsoFormat(end), summary |-> "Busy"]

\* what the loop body does with component c: "skip", "raise" or "emit"
Outcome(c, tz, rs, re) ==
    IF NotAnEvent(c) \/ IsFree(c) THEN "skip"
    ELSE IF RaisesAttributeError(c) THEN "raise"
    ELSE IF OutsideRange(Normalise(c, tz)[1], Normalise(c, tz)[2], rs, re)
         THEN "skip"
    ELSE "emit"

----------------------------------------------------------------------------
(* The run *)

NoTime == Aware(0, 0)

\* the state of a process that has not run a line of main() yet
Fresh ==
    /\ pc = "main"
    /\ exitCode = -1
    /\ stderr = <<>>
    /\ tz_name = ""
    /\ local_tz = "UTC"
    /\ ics_urls = <<>>
    /\ configured = FALSE
    /\ range_start = NoTime
    /\ range_end = NoTime
    /\ all_events = <<>>
    /\ i = 0
    /\ cal = <<>>
    /\ ci = 0
    /\ events = <<>>
    /\ perFeed = <<>>

\* a reading of the clock: the hour of the last reading or a later one
ClockReads(t) == {t, t + MaxAdvance}

\* lines 115-118: config.json not found
ConfigMissing ==
    /\ pc = "main"
    /\ ~configExists
    /\ pc' = "exited"
    /\ exitCode' = 1
    /\ stderr' = Append(stderr, "config.json not found.")
    /\ UNCHANGED <<envVars, now, schedule_json, runNo, mainVars, rangeVars,
                   all_events, i, parseVars, perFeed, writeLog>>

\* the feed list with the urls of config.json added to those of ICS_URLS
ResolveUrlsMerging(env_urls, cfg) ==
    SelectSeq([k \in 1 .. Len(Split(env_urls)) |-> Strip(Split(env_urls)[k])],
              LAMBDA u : u # <<>>)
    \o SelectSeq(Get(cfg, "icsUrls", <<>>),
                 LAMBDA u : u # <<>> /\ u # Placeholder)

\* lines 133-139: the feed list
ResolveUrls(env_urls, cfg) ==
    IF Strip(env_urls) # <<>>
    THEN SelectSeq([k \in 1 .. Len(Split(env_urls)) |-> Strip(Split(env_urls)[k])],
                   LAMBDA u : u # <<>>)
    ELSE SelectSeq(Get(cfg, "icsUrls", <<>>),
                   LAMBDA u : u # <<>> /\ u # Placeholder)

\* lines 123-128: the zone used, UTC when the name is unknown
ResolveZone(name) == IF name \in KnownZones THEN name ELSE "UTC"

\* lines 120-140
LoadConfig ==
    /\ pc = "main"
    /\ configExists
    /\ tz_name' = Get(config, "timezone", "UTC")
    /\ local_tz' = ResolveZone(tz_name')
    /\ stderr' = IF tz_name' \in KnownZones THEN stderr
                 ELSE Append(stderr, "Unknown timezone. Using UTC.")
    /\ ics_urls' = ResolveUrls(ICS_URLS, config)
    /\ configured' = (Len(ics_urls') > 0)
    /\ pc' = "range"
    /\ UNCHANGED <<envVars, now, schedule_json, runNo, exitCode, rangeVars,
                   all_events, i, parseVars, perFeed, writeLog>>

\* lines 142-143
GetFetchRange ==
    /\ pc = "range"
    /\ \E t \in ClockReads(now) :
        /\ now' = t
        /\ range_start' = get_fetch_range(local_tz, t, sysOff)[1]
        /\ range_end' = get_fetch_range(local_tz, t, sysOff)[2]
    /\ all_events' = <<>>
    /\ i' = 1
    /\ pc' = "loop"
    /\ UNCHANGED <<envVars, schedule_json, runNo, exitCode, stderr, mainVars,
                   parseVars, perFeed, writeLog>>

\* requests.get, raise_for_status and Calendar.from_ical succeed for url
Fetchable(url) == url \in DOMAIN web /\ web[url].ok

\* lines 145-149 with 52-59: the fetch or the decoding raises; parse_ics_url
\* returns its empty list and main extends all_events by it
FetchFails ==
    /\ pc = "loop"
    /\ i <= Len(ics_urls)
    /\ ~Fetchable(ics_urls[i])
    /\ stderr' = Append(stderr, "Could not fetch")
    /\ events' = <<>>
    /\ all_events' = all_events \o events'
    /\ perFeed' = Append(perFeed, events')
    /\ i' = i + 1
    /\ UNCHANGED <<envVars, now, schedule_json, runNo, pc, exitCode, mainVars,
                   rangeVars, cal, ci, writeLog>>

\* lines 145-147 with 52-56: the calendar is fetched and decoded
FetchOk ==
    /\ pc = "loop"
    /\ i <= Len(ics_urls)
    /\ Fetchable(ics_urls[i])
    /\ events' = <<>>
    /\ cal' = web[ics_urls[i]].cal
    /\ ci' = 1
    /\ pc' = "walk"
    /\ UNCHANGED <<envVars, now, schedule_json, runNo, exitCode, stderr,
                   mainVars, rangeVars, all_events, i, perFeed, writeLog>>

\* the component the walk is at
Component == cal[ci]

\* lines 61-100: a continue
SkipComponent ==
    /\ pc = "walk"
    /\ ci <= Len(cal)
    /\ Outcome(Component, local_tz, range_start, range_end) = "skip"
    /\ ci' = ci + 1
    /\ UNCHANGED <<envVars, now, schedule_json, runNo, pc, exitCode, stderr,
                   mainVars, rangeVars, all_events, i, cal, events, perFeed,
                   writeLog>>

\* line 94: AttributeError outside the try block ends the process
RaiseInComponent ==
    /\ pc = "walk"
    /\ ci <= Len(cal)
    /\ Outcome(Component, local_tz, range_start, range_end) = "raise"
    /\ stderr' = Append(stderr, "AttributeError")
    /\ pc' = "exited"
    /\ exitCode' = 1
    /\ UNCHANGED <<envVars, now, schedule_json, runNo, mainVars, rangeVars,
                   all_events, i, parseVars, perFeed, writeLog>>

\* lines 102-109
AppendEvent ==
    /\ pc = "walk"
    /\ ci <= Len(cal)
    /\ Outcome(Component, local_tz, range_start, range_end) = "emit"
    /\ events' = Append(events,
                        MakeEvent(Component, Normalise(Component, local_tz)[1],
                                  Normalise(Component, local_tz)[2]))
    /\ ci' = ci + 1
    /\ UNCHANGED <<envVars, now, schedule_json, runNo, pc, exitCode, stderr,
                   mainVars, rangeVars, all_events, i, cal, perFeed, writeLog>>

\* an extend that drops the intervals all_events already holds
ExtendUnique(all, evts) ==
    all \o SelectSeq(evts, LAMBDA e : \A k \in 1 .. Len(all) : all[k] # e)

\* all_events.extend(evts)
Extend(all, evts) == all \o evts

\* line 111 and lines 147-149
ReturnEvents ==
    /\ pc = "walk"
    /\ ci > Len(cal)
    /\ all_events' = Extend(all_events, events)
    /\ perFeed' = Append(perFeed, events)
    /\ i' = i + 1
    /\ pc' = "loop"
    /\ UNCHANGED <<envVars, now, schedule_json, runNo, exitCode, stderr,
                   mainVars, rangeVars, parseVars, writeLog>>

\* an output that keeps the events of the snapshot already on disk
OutputMerging(clock) ==
    [lastUpdated |-> IsoFormat(Aware(clock, ZoneOffset(local_tz))),
     timezone |-> tz_name,
     ownerName |-> Get(config, "ownerName", "Nikki"),
     weeklyProjectHours |-> Get(config, "weeklyProjectHours", DefaultWeeklyProjectHours),
     workdayStart |-> Get(config, "workdayStart", DefaultWorkdayStart),
     workdayEnd |-> Get(config, "workdayEnd", DefaultWorkdayEnd),
     configured |-> configured,
     events |-> (IF schedule_json = <<>> THEN <<>> ELSE schedule_json[1].events)
                \o all_events]

\* lines 151-160
Output(clock) ==
    [lastUpdated |-> IsoFormat(Aware(clock, ZoneOffset(local_tz))),
     timezone |-> tz_name,
     ownerName |-> Get(config, "ownerName", "Nikki"),
     weeklyProjectHours |-> Get(config, "weeklyProjectHours", DefaultWeeklyProjectHours),
     workdayStart |-> Get(config, "workdayStart", DefaultWorkdayStart),
     workdayEnd |-> Get(config, "workdayEnd", DefaultWorkdayEnd),
     configured |-> configured,
     events |-> all_events]

\* lines 151-166
WriteOutput ==
    /\ pc = "loop"
    /\ i > Len(ics_urls)
    /\ \E t \in ClockReads(now) :
        /\ now' = t
        /\ schedule_json' = <<Output(t)>>
        /\ writeLog' = Append(writeLog,
                              [run |-> runNo, doc |-> Output(t),
                               processed |-> Len(perFeed),
                               feeds |-> ics_urls,
                               window |-> <<range_start, range_end>>])
    /\ pc' = "exited"
    /\ exitCode' = 0
    /\ UNCHANGED <<envVars, runNo, stderr, mainVars, rangeVars, all_events, i,
                   parseVars, perFeed>>

\* lines 169-170: the script is started again, on the same inputs
Rerun ==
    /\ pc = "exited"
    /\ runNo < MaxRuns
    /\ runNo' = runNo + 1
    /\ pc' = "main"
    /\ exitCode' = -1
    /\ stderr' = <<>>
    /\ tz_name' = ""
    /\ local_tz' = "UTC"
    /\ ics_urls' = <<>>
    /\ configured' = FALSE
    /\ range_start' = NoTime
    /\ range_end' = NoTime
    /\ all_events' = <<>>
    /\ i' = 0
    /\ cal' = <<>>
    /\ ci' = 0
    /\ events' = <<>>
    /\ perFeed' = <<>>
    /\ UNCHANGED <<envVars, now, schedule_json, writeLog>>

Next ==
    \/ ConfigMissing
    \/ LoadConfig
    \/ GetFetchRange
    \/ FetchFails
    \/ FetchOk
    \/ SkipComponent
    \/ RaiseInComponent
    \/ AppendEvent
    \/ ReturnEvents
    \/ WriteOutput
    \/ Rerun

----------------------------------------------------------------------------
(* The inputs of a run *)

Present(v) == [has |-> TRUE, val |-> v]
AbsentText == [has |-> FALSE, val |-> ""]
AbsentNumber == [has |-> FALSE, val |-> 0]
AbsentList == [has |-> FALSE, val |-> <<>>]

\* a config.json that gives only the timezone and the feed list
Cfg(tz, urls) ==
    [timezone |-> tz, icsUrls |-> urls, ownerName |-> AbsentText,
     weeklyProjectHours |-> AbsentNumber, workdayStart |-> AbsentNumber,
     workdayEnd |-> AbsentNumber]

\* a config.json that gives every key
FullCfg(tz, urls) ==
    [timezone |-> tz, icsUrls |-> urls, ownerName |-> Present("Sam"),
     weeklyProjectHours |-> Present(30), workdayStart |-> Present(9),
     workdayEnd |-> Present(17)]

\* sequences over S of length at most n
RECURSIVE SeqsUpTo(_, _)
SeqsUpTo(S, n) ==
    IF n = 0 THEN {<<>>}
    ELSE SeqsUpTo(S, n - 1) \cup
         {Append(q, x) : q \in {r \in SeqsUpTo(S, n - 1) : Len(r) = n - 1}, x \in S}

Vevent(s, e, transp, busy) ==
    [name |-> "VEVENT", DTSTART |-> s, DTEND |-> e, TRANSP |-> transp,
     BUSYSTATUS |-> busy, SUMMARY |-> "Dentist"]

Vtimezone ==
    [name |-> "VTIMEZONE", DTSTART |-> NaiveValue(240), DTEND |-> NoValue,
     TRANSP |-> "", BUSYSTATUS |-> "", SUMMARY |-> ""]

\* Wednesday noon UTC of the week whose Monday is day 7
MidWeek == 9 * 24 + 12

\* the instants around the two ends of the window of that week in Tokyo,
\* which runs from 159 to 999 (wall-clock readings 168 to 1008)
RawValues ==
    {DateValue(d) : d \in {6, 7, 8, 42}}
    \cup {NaiveValue(w) : w \in {167, 168, 169, 1007, 1008}}
    \cup {AwareValue(159, 0), AwareValue(160, 0 - 4), AwareValue(998, 9),
          AwareValue(999, 0)}

TranspValues == {"", "TRANSPARENT", "transparent", "OPAQUE"}
BusyStatusValues == {"", "FREE", "Free", "BUSY"}

RichComponents ==
    {Vevent(s, e, t, b) : s \in RawValues \cup {NoValue},
                          e \in RawValues \cup {NoValue},
                          t \in TranspValues, b \in BusyStatusValues}
    \cup {Vtimezone}

Meeting == Vevent(NaiveValue(240), NaiveValue(242), "", "BUSY")
Holiday == Vevent(DateValue(10), DateValue(11), "OPAQUE", "")
Tentative == Vevent(NaiveValue(240), NaiveValue(242), "transparent", "")
LastYear == Vevent(AwareValue(100, 0), AwareValue(102, 0), "", "")
Mixed == Vevent(NaiveValue(240), DateValue(11), "", "")

LeanComponents == {Meeting, Holiday, Tentative, LastYear, Mixed, Vtimezone}

Failing == [ok |-> FALSE, cal |-> <<>>]
Decoded(c) == [ok |-> TRUE, cal |-> c]

UrlA == <<"a">>
UrlB == <<"b">>
UrlC == <<"c">>
Sites == {UrlA, UrlB}

\* http://a serves one meeting, http://b fails, every other url is unreachable
PlainWeb == (UrlA :> Decoded(<<Meeting>>)) @@ (UrlB :> Failing)

\* a schedule.json left by an earlier run
StaleDoc ==
    [lastUpdated |-> IsoFormat(Aware(0, 0)), timezone |-> "UTC",
     ownerName |-> "Nikki", weeklyProjectHours |-> DefaultWeeklyProjectHours,
     workdayStart |-> DefaultWorkdayStart, workdayEnd |-> DefaultWorkdayEnd,
     configured |-> TRUE, events |-> <<>>]

Tokyo == Present("Asia/Tokyo")

\* the values every family of inputs below leaves at their plain choice
PlainRest ==
    /\ configExists = TRUE
    /\ sysOff = 0
    /\ now = MidWeek
    /\ schedule0 = <<>>

\* ICS_URLS varies
InitEnv ==
    /\ ICS_URLS \in SeqsUpTo({"a", "b", " ", ","}, MaxEnvLen)
    /\ config \in {Cfg(Tokyo, AbsentList), Cfg(Tokyo, Present(<<UrlC>>))}
    /\ web = PlainWeb
    /\ PlainRest

\* icsUrls of config.json varies
InitCfgUrls ==
    /\ ICS_URLS \in {<<>>, <<" ">>, <<"b">>}
    /\ config \in {Cfg(Tokyo, Present(u)) :
                    u \in SeqsUpTo({<<>>, Placeholder, UrlA, UrlB, <<" ", "a">>},
                                   MaxCfgUrls)}
    /\ web = PlainWeb
    /\ PlainRest

\* the components of one calendar vary
InitCalendar ==
    /\ ICS_URLS = <<>>
    /\ config = Cfg(Tokyo, Present(<<UrlA>>))
    /\ web \in {(UrlA :> Decoded(c)) @@ (UrlB :> Failing) :
                 c \in {<<x>> : x \in RichComponents}
                       \cup SeqsUpTo(LeanComponents, MaxComps)}
    /\ PlainRest

\* the feed list and which feeds fail vary
InitFeeds ==
    /\ ICS_URLS = <<>>
    /\ config \in {Cfg(Tokyo, Present(u)) :
                    u \in SeqsUpTo({UrlA, UrlB, UrlC}, MaxFeeds)}
    /\ web \in {(UrlA :> x) @@ (UrlB :> y) :
                 x \in {Failing, Decoded(<<Meeting>>), Decoded(<<Holiday, Meeting>>),
                        Decoded(<<Meeting, Mixed>>)},
                 y \in {Failing, Decoded(<<Meeting>>)}}
    /\ PlainRest

ZoneChoices ==
    {AbsentText, Present("UTC"), Tokyo, Present("America/New_York"),
     Present("Mars/Phobos")}

\* the zone, the clock, the system zone and the files vary
InitClock ==
    /\ ICS_URLS = <<>>
    /\ config \in {Cfg(tz, Present(<<UrlA>>)) : tz \in ZoneChoices}
                  \cup {FullCfg(tz, Present(<<UrlA>>)) : tz \in ZoneChoices}
    /\ web = (UrlA :> Decoded(<<Meeting, Holiday>>)) @@ (UrlB :> Failing)
    /\ configExists \in BOOLEAN
    /\ sysOff \in {0, 9, 0 - 4}
    /\ now \in {6 * 24 + 20, 6 * 24 + 23, 7 * 24, MidWeek}
    /\ schedule0 \in {<<>>, <<StaleDoc>>}

Init ==
    /\ \/ InitEnv
       \/ InitCfgUrls
       \/ InitCalendar
       \/ InitFeeds
       \/ InitClock
    /\ schedule_json = schedule0
    /\ runNo = 1
    /\ writeLog = <<>>
    /\ Fresh

Spec == Init /\ [][Next]_vars

----------------------------------------------------------------------------
(* What a run is expected to produce, as functions of its inputs *)

\* the intervals one calendar yields, in component order
RECURSIVE Emitted(_, _, _, _)
Emitted(c, tz, rs, re) ==
    IF c = <<>> THEN <<>>
    ELSE (IF Outcome(Head(c), tz, rs, re) = "emit"
          THEN <<MakeEvent(Head(c), Normalise(Head(c), tz)[1],
                           Normalise(Head(c), tz)[2])>>
          ELSE <<>>) \o Emitted(Tail(c), tz, rs, re)

\* the intervals of a feed list, feed after feed; a failing feed yields none
RECURSIVE Contributions(_, _, _, _)
Contributions(urls, tz, rs, re) ==
    IF urls = <<>> THEN <<>>
    ELSE (IF Fetchable(Head(urls)) THEN Emitted(web[Head(urls)].cal, tz, rs, re)
          ELSE <<>>) \o Contributions(Tail(urls), tz, rs, re)

LastWrite == writeLog[Len(writeLog)]
WroteThisRun == writeLog # <<>> /\ LastWrite.run = runNo
Walking == pc = "walk" /\ ci <= Len(cal)
Walked == pc = "walk" /\ ci > 1

----------------------------------------------------------------------------
(* C1: in a run that got past config loading, whichever feeds fail, the run  *)
(* reaches the write and exits normally, a failing feed contributes no       *)
(* interval, and the output holds exactly what the other feeds contribute    *)
(* when the failing feeds are left out of the list.                          *)
C1_FailuresIsolated ==
    (configExists /\ pc = "exited") =>
        /\ exitCode = 0
        /\ WroteThisRun
        /\ \A k \in 1 .. Len(ics_urls) :
               ~Fetchable(ics_urls[k]) => perFeed[k] = <<>>
        /\ LastWrite.doc.events =
               Contributions(SelectSeq(ics_urls, Fetchable), local_tz,
                             range_start, range_end)

(* C2: a component whose transparency is "transparent" or whose busy-status *)
(* marker is "free", in any letter case, adds no interval to the result of  *)
(* parse_ics_url, whatever its other fields are.                            *)
MarkedFree(c) ==
    \/ c.TRANSP \in {"TRANSPARENT", "Transparent", "transparent"}
    \/ c.BUSYSTATUS \in {"FREE", "Free", "free"}

C2_FreeNeverEmitted ==
    [][(Walking /\ MarkedFree(Component)) => events' = events]_vars

C2_Witness ==
    /\ Walked
    /\ cal[ci - 1].name = "VEVENT"
    /\ cal[ci - 1].TRANSP = "transparent"
    /\ cal[ci - 1].DTSTART = NaiveValue(169)
    /\ cal[ci - 1].DTEND = NaiveValue(1007)
    /\ events = <<>>

(* C3: every interval a run holds or writes has the summary "Busy", never *)
(* the title of the event it came from.                                   *)
AllBusy(evts) == \A k \in 1 .. Len(evts) : evts[k].summary = "Busy"

C3_SummaryAlwaysBusy ==
    /\ AllBusy(events)
    /\ AllBusy(all_events)
    /\ \A k \in 1 .. Len(writeLog) : AllBusy(writeLog[k].doc.events)

C3_Witness ==
    /\ pc = "exited"
    /\ WroteThisRun
    /\ cal # <<>>
    /\ cal[1].SUMMARY = "Dentist"
    /\ Len(schedule_json[1].events) > 0

(* C4: an event that is not skipped for another reason is kept exactly when *)
(* start < rangeEnd and end > rangeStart for its normalised instants, an    *)
(* absent end counting as the start.                                        *)
Considered(c) == ~NotAnEvent(c) /\ ~MarkedFree(c) /\ ~RaisesAttributeError(c)

Overlaps(c) ==
    /\ Normalise(c, local_tz)[1].utc < range_end.utc
    /\ Normalise(c, local_tz)[2].utc > range_start.utc

C4_KeptIffOverlaps ==
    [][(Walking /\ Considered(Component)) =>
          /\ Overlaps(Component) => Len(events') = Len(events) + 1
          /\ ~Overlaps(Component) => events' = events]_vars

\* an event that starts before the window and ends inside it was kept
C4_Witness ==
    /\ Walked
    /\ Considered(cal[ci - 1])
    /\ Normalise(cal[ci - 1], local_tz)[1].utc < range_start.utc
    /\ Normalise(cal[ci - 1], local_tz)[2].utc > range_start.utc
    /\ Len(events) = 1

(* C5, as stated: a non-blank ICS_URLS gives exactly its comma-separated   *)
(* entries, trimmed, without the empty ones, and nothing of icsUrls;       *)
(* otherwise the list is icsUrls in order without the placeholder.         *)
Resolved == configExists /\ pc # "main"

EnvEntries ==
    SelectSeq([k \in 1 .. Len(Split(ICS_URLS)) |-> Strip(Split(ICS_URLS)[k])],
              LAMBDA u : Len(u) > 0)

ConfigUrls == IF config.icsUrls.has THEN config.icsUrls.val ELSE <<>>

C5_AsStated ==
    Resolved =>
        ics_urls = IF Strip(ICS_URLS) # <<>> THEN EnvEntries
                   ELSE SelectSeq(ConfigUrls, LAMBDA u : u # Placeholder)

(* C5, amended: as above, but the fallback list is icsUrls in order without *)
(* its empty entries and without the placeholder.                           *)
C5_FeedListResolution ==
    Resolved =>
        ics_urls = IF Strip(ICS_URLS) # <<>> THEN EnvEntries
                   ELSE SelectSeq(ConfigUrls,
                                  LAMBDA u : Len(u) > 0 /\ u # Placeholder)

\* ICS_URLS = "http://a,http://b" with icsUrls = ["http://c"]
C5_Witness ==
    /\ ICS_URLS = <<"a", ",", "b">>
    /\ ConfigUrls = <<UrlC>>
    /\ Resolved
    /\ ics_urls = <<UrlA, UrlB>>

(* C6: with an unrecognised timezone name the run does not abort, warns,   *)
(* uses UTC for the window and the normalisation, writes the output, and   *)
(* the output's timezone field shows the UTC fallback.                     *)
UnknownZone == config.timezone.has /\ config.timezone.val \notin KnownZones

C6_UnknownZoneFallsBackToUTC ==
    (configExists /\ UnknownZone) =>
        /\ pc \notin {"main"} =>
              /\ local_tz = "UTC"
              /\ \E k \in 1 .. Len(stderr) :
                     stderr[k] = "Unknown timezone. Using UTC."
        /\ pc \in {"loop", "walk"} => range_start.off = 0
        /\ pc = "exited" =>
              /\ exitCode = 0
              /\ WroteThisRun
              /\ schedule_json[1].timezone = "UTC"

(* C7: the output file is written at most once per run and only after every *)
(* feed of the list was processed; a run without config.json exits with 1   *)
(* and leaves the file as it was; a run that loaded its config exits with 0 *)
(* after the write, even if feeds failed.                                   *)
WriteOrderingHolds ==
    /\ \A j, k \in 1 .. Len(writeLog) :
           writeLog[j].run = writeLog[k].run => j = k
    /\ \A k \in 1 .. Len(writeLog) :
           writeLog[k].processed = Len(writeLog[k].feeds)
    /\ \/ schedule_json = schedule0 /\ writeLog = <<>>
       \/ writeLog # <<>> /\ schedule_json = <<LastWrite.doc>>
    /\ (pc = "exited" /\ ~configExists) =>
           exitCode = 1 /\ schedule_json = schedule0
    /\ (pc = "exited" /\ exitCode = 0) => WroteThisRun

C7_WriteOrdering ==
    /\ WriteOrderingHolds
    /\ (pc = "exited" /\ configExists) => exitCode = 0 /\ WroteThisRun

(* C8: the events written are the concatenation, in feed-list order, of    *)
(* what each feed emitted in its own component order: nothing is sorted,   *)
(* merged or dropped as a duplicate.                                       *)
C8_EventsAreConcatenation ==
    /\ pc \in {"loop", "walk"} =>
           all_events = Contributions(SubSeq(ics_urls, 1, i - 1), local_tz,
                                      range_start, range_end)
    /\ (pc = "exited" /\ exitCode = 0) =>
           /\ schedule_json[1].events =
                  Contributions(ics_urls, local_tz, range_start, range_end)
           /\ \A k \in 1 .. Len(ics_urls) :
                  perFeed[k] = Contributions(<<ics_urls[k]>>, local_tz,
                                             range_start, range_end)

\* two feeds that emit the same interval give two entries
C8_Witness ==
    /\ pc = "exited"
    /\ exitCode = 0
    /\ ics_urls = <<UrlA, UrlB>>
    /\ Len(perFeed[1]) = 1
    /\ perFeed[2] = perFeed[1]
    /\ schedule_json[1].events = <<perFeed[1][1], perFeed[1][1]>>

(* C9: rangeStart is local midnight of the Monday of the week of the      *)
(* current date, the date being taken in the configured timezone;         *)
(* rangeEnd is 35 days later.                                             *)
MondayOf(day) == day - (day % 7)

C9_WindowInConfiguredZone ==
    pc \in {"loop", "walk"} =>
        /\ range_start.off = ZoneOffset(local_tz)
        /\ range_start.utc + ZoneOffset(local_tz) =
               24 * MondayOf((now + ZoneOffset(local_tz)) \div 24)
        /\ range_end.utc = range_start.utc + 35 * 24

(* C10: two runs on the same inputs that look at the same window write the *)
(* same events in the same order, whatever file the earlier run left; the  *)
(* documents differ at most in lastUpdated.                                *)
SameButLastUpdated(d, e) ==
    [d EXCEPT !.lastUpdated = e.lastUpdated] = e

C10_Idempotent ==
    \A j, k \in 1 .. Len(writeLog) :
        writeLog[j].window = writeLog[k].window =>
            /\ writeLog[j].doc.events = writeLog[k].doc.events
            /\ SameButLastUpdated(writeLog[j].doc, writeLog[k].doc)

C10_Witness ==
    /\ Len(writeLog) = 2
    /\ writeLog[1].window = writeLog[2].window
    /\ Len(writeLog[2].doc.events) = 2
    /\ writeLog[1].doc.lastUpdated # writeLog[2].doc.lastUpdated
    /\ schedule0 = <<StaleDoc>>

====
